---- MODULE Spec2Model ----
(***************************************************************************)
(* A model of python_gedcom_2.parser.Parser: the GEDCOM 5.5 line grammar   *)
(* of parse_line (regular expressions matched over character sequences),   *)
(* the level-based tree builder, the lazily built element list and pointer *)
(* dictionary, and the relationship queries built on them.                 *)
(*                                                                         *)
(* A line is a sequence of one-character strings.  Elements live in an     *)
(* arena (a sequence of records); an element is named by its index, and 0  *)
(* stands for Python's None where an element is expected.                  *)
(***************************************************************************)
EXTENDS Integers, Sequences, FiniteSets, TLC

VARIABLES
    arena,              \* every Element object ever created, by identity
    root_element,       \* Parser.__root_element (an index into arena)
    element_list,       \* Parser.__element_list (sequence of element ids)
    element_dictionary, \* Parser.__element_dictionary (sequence of <<pointer, id>>)
    pc,                 \* "idle", or "parsing" inside the loop of parse/parse_stream
    api,                \* which entry point runs: "parse_stream" or "parse"
    stream,             \* the lines the running loop has still to process
    line_number,        \* local line_number of parse/parse_stream
    last_element,       \* local last_element of parse/parse_stream
    strict,             \* the strict argument of the running parse
    ret,                \* what the last finished call returned or raised
    pending             \* caches not read since the last parse / invalidate_cache

vars == <<arena, root_element, element_list, element_dictionary, pc, api, stream,
          line_number, last_element, strict, ret, pending>>

----------------------------------------------------------------------------
(* Bounds of the model *)

\* Capacity of the arena: element objects created over a whole run.
MaxNodes == 5

\* Depth of Python recursion explored before the call is cut (RecursionError).
MaxDepth == 6

----------------------------------------------------------------------------
(* Characters *)

Upper == {"A","B","C","D","E","F","G","H","I","J","K","L","M",
          "N","O","P","Q","R","S","T","U","V","W","X","Y","Z"}
Lower == {"a","b","c","d","e","f","g","h","i","j","k","l","m",
          "n","o","p","q","r","s","t","u","v","w","x","y","z"}
Digit19 == {"1","2","3","4","5","6","7","8","9"}
Digit == {"0"} \cup Digit19
TagChar == Upper \cup Lower \cup Digit \cup {"_"}
EolChar == {"\n", "\r"}
Whitespace == {" ", "\t", "\n", "\r", "\f"}

\* Python's None where a string is expected (a pointer).
None == <<"None">>
\* Python's None where an element is expected.
NoElement == 0

\* s[a..b], empty when b < a
Slice(s, a, b) == IF b < a THEN <<>> ELSE SubSeq(s, a, b)

\* Position after the longest run of characters of set cs starting at s[i].
RECURSIVE RunEnd(_, _, _)
RunEnd(s, i, cs) ==
    IF i <= Len(s) /\ s[i] \in cs THEN RunEnd(s, i + 1, cs) ELSE i

\* Position after the longest run of characters not in cs starting at s[i].
RECURSIVE RunEndNot(_, _, _)
RunEndNot(s, i, cs) ==
    IF i <= Len(s) /\ s[i] \notin cs THEN RunEndNot(s, i + 1, cs) ELSE i

DigitValue(c) ==
    CASE c = "0" -> 0 [] c = "1" -> 1 [] c = "2" -> 2 [] c = "3" -> 3
      [] c = "4" -> 4 [] c = "5" -> 5 [] c = "6" -> 6 [] c = "7" -> 7
      [] c = "8" -> 8 [] c = "9" -> 9

\* int(line_parts[0])
RECURSIVE ToInt(_)
ToInt(ds) ==
    IF ds = <<>> THEN 0
    ELSE 10 * ToInt(SubSeq(ds, 1, Len(ds) - 1)) + DigitValue(ds[Len(ds)])

\* str.strip(): leading and trailing whitespace removed
RECURSIVE LStrip(_)
LStrip(s) ==
    IF s # <<>> /\ s[1] \in Whitespace THEN LStrip(Tail(s)) ELSE s

RECURSIVE RStrip(_)
RStrip(s) ==
    IF s # <<>> /\ s[Len(s)] \in Whitespace
    THEN RStrip(SubSeq(s, 1, Len(s) - 1)) ELSE s

Strip(s) == RStrip(LStrip(s))

\* str.rstrip(' ')
RECURSIVE RStripSpace(_)
RStripSpace(s) ==
    IF s # <<>> /\ s[Len(s)] = " "
    THEN RStripSpace(SubSeq(s, 1, Len(s) - 1)) ELSE s

----------------------------------------------------------------------------
(* The line grammar: each matcher returns [ok, text, next] for the group   *)
(* matched at position i, next being the position after it.                *)

NoMatch == [ok |-> FALSE, text |-> <<>>, next |-> 0]

\* level_regex = '^(0|[1-9]+[0-9]*) '   (text excludes the space)
MatchLevel(s) ==
    IF Len(s) >= 2 /\ s[1] = "0" /\ s[2] = " "
    THEN [ok |-> TRUE, text |-> <<"0">>, next |-> 3]
    ELSE IF Len(s) >= 1 /\ s[1] \in Digit19
    THEN LET e == RunEnd(s, 1, Digit)
         IN  IF e <= Len(s) /\ s[e] = " "
             THEN [ok |-> TRUE, text |-> Slice(s, 1, e - 1), next |-> e + 1]
             ELSE NoMatch
    ELSE NoMatch

\* pointer_regex = '(@[^@]+@ |)'   (text includes the trailing space)
MatchPointer(s, i) ==
    LET e == RunEndNot(s, i + 1, {"@"})
    IN  IF /\ i <= Len(s) /\ s[i] = "@"
           /\ e > i + 1
           /\ e + 1 <= Len(s) /\ s[e] = "@" /\ s[e + 1] = " "
        THEN [ok |-> TRUE, text |-> Slice(s, i, e + 1), next |-> e + 2]
        ELSE [ok |-> TRUE, text |-> <<>>, next |-> i]

\* tag_regex = '([A-Za-z0-9_]+)'
MatchTag(s, i) ==
    LET e == RunEnd(s, i, TagChar)
    IN  IF e > i THEN [ok |-> TRUE, text |-> Slice(s, i, e - 1), next |-> e]
        ELSE NoMatch

\* value_regex = '( [^\n\r]*|)'   (text includes the leading space)
MatchValue(s, i) ==
    IF i <= Len(s) /\ s[i] = " "
    THEN LET e == RunEndNot(s, i + 1, EolChar)
         IN  [ok |-> TRUE, text |-> Slice(s, i, e - 1), next |-> e]
    ELSE [ok |-> TRUE, text |-> <<>>, next |-> i]

\* end_of_line_regex = '([\r\n]{1,2})'
MatchEol(s, i) ==
    IF i <= Len(s) /\ s[i] \in EolChar
    THEN IF i + 1 <= Len(s) /\ s[i + 1] \in EolChar
         THEN [ok |-> TRUE, text |-> Slice(s, i, i + 1), next |-> i + 2]
         ELSE [ok |-> TRUE, text |-> Slice(s, i, i), next |-> i + 1]
    ELSE NoMatch

NoGroups == [ok |-> FALSE, groups |-> <<>>, next |-> 0]

\* last_line_regex = level_regex + pointer_regex + tag_regex + value_regex,
\* applied with regex.match (anchored at the start only).  Each group is
\* matched where the one before it ended; l, p, t, v are the groups' matches.
AfterValue(l, p, t, v) ==
    [ok |-> TRUE, groups |-> <<l.text, p.text, t.text, v.text>>, next |-> v.next]
AfterTag(s, l, p, t) ==
    IF t.ok THEN AfterValue(l, p, t, MatchValue(s, t.next)) ELSE NoGroups
AfterPointer(s, l, p) == AfterTag(s, l, p, MatchTag(s, p.next))
AfterLevel(s, l) ==
    IF l.ok THEN AfterPointer(s, l, MatchPointer(s, l.next)) ELSE NoGroups
MatchLastLine(s) == AfterLevel(s, MatchLevel(s))

\* gedcom_line_regex = last_line_regex + end_of_line_regex, with regex.match
WithEol(m, e) ==
    IF e.ok THEN [ok |-> TRUE, groups |-> Append(m.groups, e.text), next |-> e.next]
    ELSE NoGroups
AfterLastLine(s, m) == IF m.ok THEN WithEol(m, MatchEol(s, m.next)) ELSE NoGroups
MatchGedcomLine(s) == AfterLastLine(s, MatchLastLine(s))

\* cont_line_regex = '([^\n\r]*|)' + end_of_line_regex, with regex.match
TextWithEol(text, e) ==
    IF e.ok THEN [ok |-> TRUE, groups |-> <<text, e.text>>, next |-> e.next]
    ELSE NoGroups
ContLineAt(s, e) == TextWithEol(Slice(s, 1, e - 1), MatchEol(s, e))
MatchContLine(s) == ContLineAt(s, RunEndNot(s, 1, EolChar))

----------------------------------------------------------------------------
(* Tags (python_gedcom_2.tags) and element kinds *)

GEDCOM_TAG_CONTINUED == <<"C","O","N","T">>
GEDCOM_TAG_CONCATENATION == <<"C","O","N","C">>
GEDCOM_TAG_INDIVIDUAL == <<"I","N","D","I">>
GEDCOM_TAG_FAMILY == <<"F","A","M">>
GEDCOM_TAG_FAMILY_CHILD == <<"F","A","M","C">>
GEDCOM_TAG_FAMILY_SPOUSE == <<"F","A","M","S">>
GEDCOM_TAG_HUSBAND == <<"H","U","S","B">>
GEDCOM_TAG_WIFE == <<"W","I","F","E">>
GEDCOM_TAG_CHILD == <<"C","H","I","L">>
GEDCOM_TAG_MARRIAGE == <<"M","A","R","R">>
GEDCOM_TAG_DATE == <<"D","A","T","E">>
GEDCOM_TAG_PLACE == <<"P","L","A","C">>

\* RootElement(): level -1, tag ROOT, no pointer, no value, no parent
RootElement ==
    [level |-> -1, pointer |-> <<>>, tag |-> <<"R","O","O","T">>, value |-> <<>>,
     crlf |-> <<"\n">>, parent |-> NoElement, children |-> <<>>]

\* ElementCreator.create_element(level, pointer, tag, value, crlf)
CreateElement(f) ==
    [level |-> f.level, pointer |-> f.pointer, tag |-> f.tag, value |-> f.value,
     crlf |-> f.crlf, parent |-> NoElement, children |-> <<>>]

\* isinstance(e, IndividualElement): the class is chosen from the tag at creation
IsIndividual(ar, e) == e # NoElement /\ ar[e].tag = GEDCOM_TAG_INDIVIDUAL
\* isinstance(e, FamilyElement)
IsFamily(ar, e) == e # NoElement /\ ar[e].tag = GEDCOM_TAG_FAMILY

\* Element.add_child_element: append to the children, set the child's parent
AddChildElement(ar, parent, child) ==
    [ar EXCEPT ![parent].children = Append(@, child), ![child].parent = parent]

----------------------------------------------------------------------------
(* Parser.parse_line *)

Fields(lv, p, t, v, c) ==
    [status |-> "ok", level |-> lv, pointer |-> p, tag |-> t, value |-> v, crlf |-> c]

Raised(e) ==
    [status |-> e, level |-> -2, pointer |-> None, tag |-> <<>>, value |-> <<>>,
     crlf |-> <<>>]

\* ContFields making a concatenation child whatever the last element's tag
ContFieldsAlwaysChild(groups, last) ==
    Fields(last.level + 1, None, GEDCOM_TAG_CONCATENATION, Strip(groups[1]), groups[2])

\* The cont_line quirk (lines 205-217): free text continues the last element
ContFields(groups, last) ==
    IF last.tag # GEDCOM_TAG_CONTINUED /\ last.tag # GEDCOM_TAG_CONCATENATION
    THEN Fields(last.level + 1, None, GEDCOM_TAG_CONCATENATION, Strip(groups[1]), groups[2])
    ELSE Fields(last.level, None, last.tag, Strip(groups[1]), groups[2])

\* FieldsFrom trying the last-line quirk before the strict test
FieldsFromLenientLastLine(m, q, c, last, strictFlag) ==
    IF m.ok
    THEN Fields(ToInt(m.groups[1]), RStripSpace(m.groups[2]), m.groups[3],
                Strip(m.groups[4]), m.groups[5])
    ELSE IF q.ok
    THEN Fields(ToInt(q.groups[1]), RStripSpace(q.groups[2]), q.groups[3],
                Strip(q.groups[4]), <<"\n">>)
    ELSE IF strictFlag THEN Raised("GedcomFormatViolationError")
    ELSE IF c.ok THEN ContFields(c.groups, last)
    ELSE Raised("AttributeError")

\* Lines 184-225, given the matches m of gedcom_line_regex, q of
\* last_line_regex and c of cont_line_regex: the line's level, pointer, tag,
\* value and terminator, or the exception raised
FieldsFrom(m, q, c, last, strictFlag) ==
    IF m.ok
    THEN Fields(ToInt(m.groups[1]), RStripSpace(m.groups[2]), m.groups[3],
                Strip(m.groups[4]), m.groups[5])
    ELSE IF strictFlag THEN Raised("GedcomFormatViolationError")
    ELSE IF q.ok
    THEN Fields(ToInt(q.groups[1]), RStripSpace(q.groups[2]), q.groups[3],
                Strip(q.groups[4]), <<"\n">>)
    ELSE IF c.ok THEN ContFields(c.groups, last)
    ELSE Raised("AttributeError")   \* regex_match is None: None.groups()

\* Lines 181-225.  last is the record of last_element.
LineFields(line, last, strictFlag) ==
    FieldsFrom(MatchGedcomLine(line), MatchLastLine(line), MatchContLine(line),
               last, strictFlag)

\* LevelTooHigh with the bound off by one
LevelTooHighByTwo(level, last_level) == level > last_level + 2

\* Line 228: level > last_element.get_level() + 1
LevelTooHigh(level, last_level) == level > last_level + 1

\* FindParent stopping one level early: a sibling is taken for the parent
RECURSIVE FindParentEarly(_, _, _)
FindParentEarly(ar, parent_element, level) ==
    IF ar[parent_element].level > level
    THEN FindParentEarly(ar, ar[parent_element].parent, level)
    ELSE parent_element

\* Lines 237-240: back up from last_element to the parent of the new element
RECURSIVE FindParent(_, _, _)
FindParent(ar, parent_element, level) ==
    IF ar[parent_element].level > level - 1
    THEN FindParent(ar, ar[parent_element].parent, level)
    ELSE parent_element

\* Lines 234-245: create the element and add it to its parent
Attach(ar, f, last) ==
    LET id == Len(ar) + 1
    IN  AddChildElement(Append(ar, CreateElement(f)), FindParent(ar, last, f.level), id)

\* Lines 227-245, given the fields f obtained for the line
CheckAndAttach(ar, n, line, last, f) ==
    IF f.status # "ok"
    THEN [status |-> f.status, arena |-> ar, element |-> NoElement, level |-> -2,
          last_level |-> ar[last].level,
          cites_line |-> IF f.status = "GedcomFormatViolationError" THEN n ELSE 0,
          cites_text |-> IF f.status = "GedcomFormatViolationError" THEN line ELSE None]
    ELSE IF LevelTooHigh(f.level, ar[last].level)
    THEN [status |-> "GedcomFormatViolationError", arena |-> ar, element |-> NoElement,
          level |-> f.level, last_level |-> ar[last].level,
          cites_line |-> n, cites_text |-> None]
    ELSE [status |-> "ok", arena |-> Attach(ar, f, last), element |-> Len(ar) + 1,
          level |-> f.level, last_level |-> ar[last].level,
          cites_line |-> 0, cites_text |-> None]

\* parse_line(line_number, line, last_element, strict): the arena after the
\* call, the element returned (or the exception), the level obtained, and what
\* the exception's message cites.
ParseLine(ar, n, line, last, strictFlag) ==
    CheckAndAttach(ar, n, line, last, LineFields(line, ar[last], strictFlag))

----------------------------------------------------------------------------
(* The element list and the pointer dictionary *)

RECURSIVE BuildList(_, _)
RECURSIVE BuildListOfAll(_, _)
\* BuildList appending the element after the lists of its children
BuildListChildrenFirst(ar, element) ==
    BuildListOfAll(ar, ar[element].children) \o <<element>>

\* __build_list(element, element_list): the element, then each child's list
BuildList(ar, element) == <<element>> \o BuildListOfAll(ar, ar[element].children)
BuildListOfAll(ar, elements) ==
    IF elements = <<>> THEN <<>>
    ELSE BuildList(ar, elements[1]) \o BuildListOfAll(ar, Tail(elements))

\* get_root_child_elements()
RootChildElements(ar, root) == ar[root].children

\* Lines 81-82: the list built from the root's children
ElementListOf(ar, root) == BuildListOfAll(ar, RootChildElements(ar, root))

\* Truth value of a pointer in "if element.get_pointer()"
Truthy(p) == p # None /\ p # <<>>

DictKeys(d) == {d[i][1] : i \in 1..Len(d)}
DictGet(d, k) == LET i == CHOOSE j \in 1..Len(d) : d[j][1] = k IN d[i][2]
\* d[k] = v of a Python dict: a known key keeps its place
DictPut(d, k, v) ==
    IF k \in DictKeys(d)
    THEN [i \in 1..Len(d) |-> IF d[i][1] = k THEN <<k, v>> ELSE d[i]]
    ELSE Append(d, <<k, v>>)

\* Lines 96-98: the dictionary comprehension over the root's children
RECURSIVE DictionaryOfAll(_, _, _)
DictionaryOfAll(ar, elements, d) ==
    IF elements = <<>> THEN d
    ELSE DictionaryOfAll(ar, Tail(elements),
             IF Truthy(ar[elements[1]].pointer)
             THEN DictPut(d, ar[elements[1]].pointer, elements[1]) ELSE d)

ElementDictionaryOf(ar, root) == DictionaryOfAll(ar, RootChildElements(ar, root), <<>>)

\* get_element_list(): the cache after the call (and the value returned)
GetElementListOf(ar, root, cached) ==
    IF cached = <<>> THEN ElementListOf(ar, root) ELSE cached

\* get_element_dictionary() never building the dictionary
GetElementDictionaryCachedOnly(ar, root, cached) == cached

\* get_element_dictionary(): the cache after the call (and the value returned)
GetElementDictionaryOf(ar, root, cached) ==
    IF cached = <<>> THEN ElementDictionaryOf(ar, root) ELSE cached

\* get_element_by_pointer(pointer) on the dictionary get_element_dictionary() gave
ElementByPointer(d, pointer) ==
    IF pointer \notin DictKeys(d) THEN NoElement ELSE DictGet(d, pointer)

\* What invalidate_cache() leaves in each of the two caches
InvalidatedCache == <<>>

----------------------------------------------------------------------------
(* Individuals and families (python_gedcom_2.element.individual / family) *)

\* The children of element e carrying tag t, in order
ChildrenTagged(ar, e, t) ==
    LET HasTag(c) == ar[c].tag = t IN SelectSeq(ar[e].children, HasTag)

\* IndividualElement.is_child_in_a_family()
IsChildInAFamily(ar, individual) ==
    ChildrenTagged(ar, individual, GEDCOM_TAG_FAMILY_CHILD) # <<>>
\* IndividualElement.get_parent_family_pointer()
GetParentFamilyPointer(ar, individual) ==
    ar[ChildrenTagged(ar, individual, GEDCOM_TAG_FAMILY_CHILD)[1]].value

\* FamilyElement.has_husband() / get_husband_pointer()
HasHusband(ar, family) == ChildrenTagged(ar, family, GEDCOM_TAG_HUSBAND) # <<>>
GetHusbandPointer(ar, family) == ar[ChildrenTagged(ar, family, GEDCOM_TAG_HUSBAND)[1]].value
\* FamilyElement.has_wife() / get_wife_pointer()
HasWife(ar, family) == ChildrenTagged(ar, family, GEDCOM_TAG_WIFE) # <<>>
GetWifePointer(ar, family) == ar[ChildrenTagged(ar, family, GEDCOM_TAG_WIFE)[1]].value
\* FamilyElement.get_children_pointers()
GetChildrenPointers(ar, family) ==
    LET cs == ChildrenTagged(ar, family, GEDCOM_TAG_CHILD)
    IN  [k \in 1..Len(cs) |-> ar[cs[k]].value]

----------------------------------------------------------------------------
(* Relationship queries.  d is the dictionary get_element_dictionary()      *)
(* returns during the call.  A result is [status, value, ...]: status "ok"  *)
(* with the value returned, or the name of the exception raised.            *)

Ok(v) == [status |-> "ok", value |-> v]
Raise(e) == [status |-> e, value |-> <<>>]

\* GetFamilies without the isinstance test of lines 288-291
GetFamiliesUnchecked(ar, d, individual, family_type) ==
    LET IsFamilyLink(c) == /\ ar[c].tag = family_type
                           /\ ar[c].value \in DictKeys(d)
        links == SelectSeq(ar[individual].children, IsFamilyLink)
    IN  Ok([k \in 1..Len(links) |-> DictGet(d, ar[links[k]].value)])

\* Lines 288-302
GetFamilies(ar, d, individual, family_type) ==
    IF ~IsIndividual(ar, individual) THEN Raise("NotAnActualIndividualError")
    ELSE LET IsFamilyLink(c) == /\ ar[c].tag = family_type
                                /\ ar[c].value \in DictKeys(d)
             links == SelectSeq(ar[individual].children, IsFamilyLink)
         IN  Ok([k \in 1..Len(links) |-> DictGet(d, ar[links[k]].value)])

\* HusbandAndWife with the two slots exchanged
WifeAndHusband(ar, d, family) ==
    << IF HasWife(ar, family)
       THEN ElementByPointer(d, GetWifePointer(ar, family)) ELSE NoElement,
       IF HasHusband(ar, family)
       THEN ElementByPointer(d, GetHusbandPointer(ar, family)) ELSE NoElement >>

\* Lines 337-340: the pair returned for a family
HusbandAndWife(ar, d, family) ==
    << IF HasHusband(ar, family)
       THEN ElementByPointer(d, GetHusbandPointer(ar, family)) ELSE NoElement,
       IF HasWife(ar, family)
       THEN ElementByPointer(d, GetWifePointer(ar, family)) ELSE NoElement >>

\* Lines 324-340
GetParents(ar, d, individual) ==
    IF ~IsIndividual(ar, individual) THEN Raise("NotAnActualIndividualError")
    ELSE IF ~IsChildInAFamily(ar, individual) THEN Ok(<<NoElement, NoElement>>)
    ELSE LET family == ElementByPointer(d, GetParentFamilyPointer(ar, individual))
         IN  IF ~IsFamily(ar, family) THEN Ok(<<NoElement, NoElement>>)
             ELSE Ok(HusbandAndWife(ar, d, family))

\* Lines 313-319: the list built from the parents and the two recursive
\* results a1, a2 (an exception of either call propagates)
AncestorsFrom(parents, a1, a2) ==
    IF a1.status # "ok" THEN a1
    ELSE IF a2.status # "ok" THEN a2
    ELSE Ok(parents \o a1.value \o a2.value)

\* Lines 307-319; depth is the number of Python frames still allowed
RECURSIVE GetAncestors(_, _, _, _)
GetAncestors(ar, d, individual, depth) ==
    IF depth = 0 THEN Raise("RecursionError")
    ELSE IF ~IsIndividual(ar, individual) THEN Raise("NotAnActualIndividualError")
    ELSE LET parents == GetParents(ar, d, individual).value
         IN  AncestorsFrom(parents,
                           GetAncestors(ar, d, parents[1], depth - 1),
                           GetAncestors(ar, d, parents[2], depth - 1))

\* PathEnds that does not accept the path of the descendant alone
PathEndsAfterHop(ar, path, ancestor) ==
    Len(path) > 1 /\ ar[path[Len(path)]].pointer = ar[ancestor].pointer

\* Line 390: path[-1].get_pointer() == ancestor.get_pointer()
PathEnds(ar, path, ancestor) == ar[path[Len(path)]].pointer = ar[ancestor].pointer

\* A result of find_path_to_ancestor: is_none tells a returned None from a
\* returned path; consulted counts the calls of get_parents made
PathResult(st, none, p, n) ==
    [status |-> st, is_none |-> none, value |-> p, consulted |-> n]

\* Lines 394-399: the loop over the two parents, given the results r1, r2 of
\* the recursive calls
PathFrom(r1, r2) ==
    IF r1.status # "ok" \/ ~r1.is_none
    THEN PathResult(r1.status, r1.is_none, r1.value, 1 + r1.consulted)
    ELSE IF r2.status # "ok" \/ ~r2.is_none
    THEN PathResult(r2.status, r2.is_none, r2.value, 1 + r1.consulted + r2.consulted)
    ELSE PathResult("ok", TRUE, <<>>, 1 + r1.consulted + r2.consulted)

\* Lines 382-399; path = <<>> stands for both None and the empty list
RECURSIVE FindPathToAncestor(_, _, _, _, _, _)
FindPathToAncestor(ar, d, descendant, ancestor, path, depth) ==
    IF depth = 0 THEN PathResult("RecursionError", FALSE, <<>>, 0)
    ELSE IF ~IsIndividual(ar, descendant) \/ ~IsIndividual(ar, ancestor)
    THEN PathResult("NotAnActualIndividualError", FALSE, <<>>, 0)
    ELSE LET p == IF path = <<>> THEN <<descendant>> ELSE path
             parents == GetParents(ar, d, descendant).value
         IN  IF PathEnds(ar, p, ancestor) THEN PathResult("ok", FALSE, p, 0)
             ELSE PathFrom(
                    FindPathToAncestor(ar, d, parents[1], ancestor,
                                       Append(p, parents[1]), depth - 1),
                    FindPathToAncestor(ar, d, parents[2], ancestor,
                                       Append(p, parents[2]), depth - 1))

\* ScanMarriageData leaving the loop's date and place once they are set
RECURSIVE ScanMarriageDataFirst(_, _, _)
ScanMarriageDataFirst(ar, data, pair) ==
    IF data = <<>> THEN pair
    ELSE LET m == ar[data[1]]
             date == IF m.tag = GEDCOM_TAG_DATE /\ pair[1] = <<>> THEN m.value ELSE pair[1]
             place == IF m.tag = GEDCOM_TAG_PLACE /\ pair[2] = <<>> THEN m.value ELSE pair[2]
         IN  ScanMarriageDataFirst(ar, Tail(data), <<date, place>>)

\* Lines 271-277: the loop over the children of a marriage node, from the
\* pair <<date, place>> so far
RECURSIVE ScanMarriageData(_, _, _)
ScanMarriageData(ar, data, pair) ==
    IF data = <<>> THEN pair
    ELSE LET m == ar[data[1]]
             date == IF m.tag = GEDCOM_TAG_DATE THEN m.value ELSE pair[1]
             place == IF m.tag = GEDCOM_TAG_PLACE THEN m.value ELSE pair[2]
         IN  ScanMarriageData(ar, Tail(data), <<date, place>>)

\* Lines 271-278: the (date, place) appended for one marriage node
MarriagePair(ar, family_data) ==
    ScanMarriageData(ar, ar[family_data].children, << <<>>, <<>> >>)

\* MarriagesOfFamily leaving the family after its first marriage node
MarriagesOfFamilyOnce(ar, family) ==
    LET ms == ChildrenTagged(ar, family, GEDCOM_TAG_MARRIAGE)
    IN  IF ms = <<>> THEN <<>> ELSE <<MarriagePair(ar, ms[1])>>

\* Lines 269-278: the pairs of one family
MarriagesOfFamily(ar, family) ==
    LET ms == ChildrenTagged(ar, family, GEDCOM_TAG_MARRIAGE)
    IN  [k \in 1..Len(ms) |-> MarriagePair(ar, ms[k])]

RECURSIVE MarriagesOfFamilies(_, _)
MarriagesOfFamilies(ar, families) ==
    IF families = <<>> THEN <<>>
    ELSE MarriagesOfFamily(ar, families[1]) \o MarriagesOfFamilies(ar, Tail(families))

\* Lines 261-279
GetMarriages(ar, d, individual) ==
    IF ~IsIndividual(ar, individual) THEN Raise("NotAnActualIndividualError")
    ELSE Ok(MarriagesOfFamilies(ar,
              GetFamilies(ar, d, individual, GEDCOM_TAG_FAMILY_SPOUSE).value))

\* ChildrenOfFamily without the isinstance test on what a pointer resolves to
ChildrenOfFamilyUnchecked(ar, d, family) ==
    LET pointers == GetChildrenPointers(ar, family)
    IN  [k \in 1..Len(pointers) |-> ElementByPointer(d, pointers[k])]

\* Lines 354-358 and 370-374: the individuals the children pointers of one
\* family resolve to, in pointer order
ChildrenOfFamily(ar, d, family) ==
    LET pointers == GetChildrenPointers(ar, family)
        IsChild(p) == IsIndividual(ar, ElementByPointer(d, p))
        kept == SelectSeq(pointers, IsChild)
    IN  [k \in 1..Len(kept) |-> ElementByPointer(d, kept[k])]

\* Lines 353-358: the loop over the families.  Only a FamilyElement has
\* get_children_pointers(): another element among the families raises
RECURSIVE ChildrenOfFamilies(_, _, _)
ChildrenJoin(first, rest) ==
    IF rest.status # "ok" THEN rest ELSE Ok(first \o rest.value)
ChildrenOfFamilies(ar, d, families) ==
    IF families = <<>> THEN Ok(<<>>)
    ELSE IF ~IsFamily(ar, families[1]) THEN Raise("AttributeError")
    ELSE ChildrenJoin(ChildrenOfFamily(ar, d, families[1]),
                      ChildrenOfFamilies(ar, d, Tail(families)))

\* Lines 345-360
GetChildren(ar, d, individual) ==
    IF ~IsIndividual(ar, individual) THEN Raise("NotAnActualIndividualError")
    ELSE ChildrenOfFamilies(ar, d,
             GetFamilies(ar, d, individual, GEDCOM_TAG_FAMILY_SPOUSE).value)

\* DescendantsJoin emitting the descendants of the child after what the rest
\* of the loop appends
DescendantsJoinSiblingsFirst(child, below, rest) ==
    IF below.status # "ok" THEN below
    ELSE IF rest.status # "ok" THEN rest
    ELSE Ok(<<child>> \o rest.value \o below.value)

\* DescendantsJoin without the descendants of the child
DescendantsJoinChildOnly(child, below, rest) ==
    IF rest.status # "ok" THEN rest ELSE Ok(<<child>> \o rest.value)

\* Lines 373-374: the child, then its descendants (below), then what the rest
\* of the loop appends; an exception of a recursive call propagates
DescendantsJoin(child, below, rest) ==
    IF below.status # "ok" THEN below
    ELSE IF rest.status # "ok" THEN rest
    ELSE Ok(<<child>> \o below.value \o rest.value)

\* Lines 363-377; depth is the number of Python frames still allowed.  The
\* children met by the two loops are those get_children lists.
RECURSIVE GetDescendants(_, _, _, _)
RECURSIVE DescendantsOfAll(_, _, _, _)
DescendantsOfAll(ar, d, children, depth) ==
    IF children = <<>> THEN Ok(<<>>)
    ELSE DescendantsJoin(children[1],
                         GetDescendants(ar, d, children[1], depth - 1),
                         DescendantsOfAll(ar, d, Tail(children), depth))
DescendantsOf(ar, d, children, depth) ==
    IF children.status # "ok" THEN children
    ELSE DescendantsOfAll(ar, d, children.value, depth)
GetDescendants(ar, d, individual, depth) ==
    IF depth = 0 THEN Raise("RecursionError")
    ELSE IF ~IsIndividual(ar, individual) THEN Raise("NotAnActualIndividualError")
    ELSE DescendantsOf(ar, d, GetChildren(ar, d, individual), depth)

----------------------------------------------------------------------------
(* Inputs *)

Line_INDI == <<"0"," ","@","I","1","@"," ","I","N","D","I","\n">>
Line_FAM == <<"0"," ","@","F","1","@"," ","F","A","M","\n">>
Line_NOTE == <<"1"," ","N","O","T","E"," ","a","\n">>
Line_CONT == <<"2"," ","C","O","N","T"," ","b","\r","\n">>
Line_TEXT == <<"t","x","t","\n">>
Line_NOEOL == <<"1"," ","N","A","M","E"," ","x">>
Line_BARE == <<"t","x","t">>
Line_PADDED == <<" ","t"," ","\n">>

LinePool ==
    {Line_INDI, Line_FAM, Line_NOTE, Line_CONT, Line_TEXT, Line_NOEOL, Line_BARE, Line_PADDED}

PointerPool == {<<"@","I","1","@">>, <<"@","F","1","@">>, <<"@","X","@">>, <<>>, None}

RECURSIVE SeqsUpTo(_, _)
SeqsUpTo(S, n) ==
    IF n <= 0 THEN {<<>>}
    ELSE LET shorter == SeqsUpTo(S, n - 1)
         IN  shorter \cup {Append(q, x) : q \in {r \in shorter : Len(r) = n - 1}, x \in S}

RECURSIVE Concat(_)
Concat(lines) == IF lines = <<>> THEN <<>> ELSE lines[1] \o Concat(Tail(lines))

\* str.split("\n")
RECURSIVE Split(_)
Split(s) ==
    LET e == RunEndNot(s, 1, {"\n"})
    IN  IF e > Len(s) THEN <<s>>
        ELSE <<Slice(s, 1, e - 1)>> \o Split(Slice(s, e + 1, Len(s)))

\* The pseudo-character U+FEFF and line.decode('utf-8-sig'), which drops it
\* at the start of the decoded bytes
BOM == "BOM"
Decode(line) == IF line # <<>> /\ line[1] = BOM THEN Tail(line) ELSE line

\* A well-formed GEDCOM line: LEVEL [POINTER] TAG [VALUE] and a newline
Ln(level, pointer, tag, value) ==
    level \o <<" ">>
          \o (IF pointer = <<>> THEN <<>> ELSE pointer \o <<" ">>)
          \o tag
          \o (IF value = <<>> THEN <<>> ELSE <<" ">> \o value)
          \o <<"\n">>

PI1 == <<"@","I","1","@">>
PI2 == <<"@","I","2","@">>
PI3 == <<"@","I","3","@">>
PI4 == <<"@","I","4","@">>
PI6 == <<"@","I","6","@">>
PF1 == <<"@","F","1","@">>
PF2 == <<"@","F","2","@">>
PF3 == <<"@","F","3","@">>

\* Records of the documents the queries are run on.  I1 and I2 are the
\* parents of I3 in F1; I4 is the father of I1 in F2, whose wife I5 is never
\* declared and whose children pointers also name I5, the family F1 and I2;
\* I4 is a spouse of F1 too, and its own child-of-family link names an
\* individual.
RecI1 == << Ln(<<"0">>, PI1, GEDCOM_TAG_INDIVIDUAL, <<>>),
            Ln(<<"1">>, <<>>, GEDCOM_TAG_FAMILY_SPOUSE, PF1),
            Ln(<<"1">>, <<>>, GEDCOM_TAG_FAMILY_CHILD, PF2) >>
RecI2 == << Ln(<<"0">>, PI2, GEDCOM_TAG_INDIVIDUAL, <<>>),
            Ln(<<"1">>, <<>>, GEDCOM_TAG_FAMILY_SPOUSE, PF1) >>
RecI3 == << Ln(<<"0">>, PI3, GEDCOM_TAG_INDIVIDUAL, <<>>),
            Ln(<<"1">>, <<>>, GEDCOM_TAG_FAMILY_CHILD, PF1) >>
RecI4 == << Ln(<<"0">>, PI4, GEDCOM_TAG_INDIVIDUAL, <<>>),
            Ln(<<"1">>, <<>>, GEDCOM_TAG_FAMILY_SPOUSE, PF2),
            Ln(<<"1">>, <<>>, GEDCOM_TAG_FAMILY_SPOUSE, PF1),
            Ln(<<"1">>, <<>>, GEDCOM_TAG_FAMILY_CHILD, PI1) >>
\* F1 with a marriage that carries two dates around its place, and a second
\* marriage event without date or place
RecF1 == << Ln(<<"0">>, PF1, GEDCOM_TAG_FAMILY, <<>>),
            Ln(<<"1">>, <<>>, GEDCOM_TAG_HUSBAND, PI1),
            Ln(<<"1">>, <<>>, GEDCOM_TAG_WIFE, PI2),
            Ln(<<"1">>, <<>>, GEDCOM_TAG_CHILD, PI3),
            Ln(<<"1">>, <<>>, GEDCOM_TAG_MARRIAGE, <<>>),
            Ln(<<"2">>, <<>>, GEDCOM_TAG_DATE, <<"1","9","0","0">>),
            Ln(<<"2">>, <<>>, GEDCOM_TAG_PLACE, <<"Y","o","r","k">>),
            Ln(<<"2">>, <<>>, GEDCOM_TAG_DATE, <<"1","9","0","1">>),
            Ln(<<"1">>, <<>>, GEDCOM_TAG_MARRIAGE, <<>>) >>
\* F1 declared again, without a husband and without a marriage, I6 among its
\* children
RecF1w == << Ln(<<"0">>, PF1, GEDCOM_TAG_FAMILY, <<>>),
             Ln(<<"1">>, <<>>, GEDCOM_TAG_WIFE, PI2),
             Ln(<<"1">>, <<>>, GEDCOM_TAG_CHILD, PI3),
             Ln(<<"1">>, <<>>, GEDCOM_TAG_CHILD, PI6) >>
\* F2 with a marriage that has neither date nor place
RecF2 == << Ln(<<"0">>, PF2, GEDCOM_TAG_FAMILY, <<>>),
            Ln(<<"1">>, <<>>, GEDCOM_TAG_HUSBAND, PI4),
            Ln(<<"1">>, <<>>, GEDCOM_TAG_WIFE, <<"@","I","5","@">>),
            Ln(<<"1">>, <<>>, GEDCOM_TAG_CHILD, <<"@","I","5","@">>),
            Ln(<<"1">>, <<>>, GEDCOM_TAG_CHILD, PI1),
            Ln(<<"1">>, <<>>, GEDCOM_TAG_CHILD, PF1),
            Ln(<<"1">>, <<>>, GEDCOM_TAG_CHILD, PI2),
            Ln(<<"1">>, <<>>, GEDCOM_TAG_MARRIAGE, <<>>) >>
\* A family loop: I6 is husband and child of F3
RecLoop == << Ln(<<"0">>, PI6, GEDCOM_TAG_INDIVIDUAL, <<>>),
              Ln(<<"1">>, <<>>, GEDCOM_TAG_FAMILY_CHILD, PF3),
              Ln(<<"1">>, <<>>, GEDCOM_TAG_FAMILY_SPOUSE, PF3),
              Ln(<<"0">>, PF3, GEDCOM_TAG_FAMILY, <<>>),
              Ln(<<"1">>, <<>>, GEDCOM_TAG_HUSBAND, PI6),
              Ln(<<"1">>, <<>>, GEDCOM_TAG_CHILD, PI6) >>

RecordPool == <<RecI1, RecI2, RecI3, RecI4, RecF1, RecF1w, RecF2, RecLoop>>

\* The document made of the records of RecordPool whose index is in chosen
RECURSIVE DocumentOf(_, _)
DocumentOf(chosen, k) ==
    IF k > Len(RecordPool) THEN <<>>
    ELSE (IF k \in chosen THEN RecordPool[k] ELSE <<>>) \o DocumentOf(chosen, k + 1)

Documents == {DocumentOf(chosen, 1) : chosen \in SUBSET (1..Len(RecordPool))}

----------------------------------------------------------------------------
(* The parser as a state machine *)

Init ==
    /\ arena = <<RootElement>>
    /\ root_element = 1
    /\ element_list = <<>>
    /\ element_dictionary = <<>>
    /\ pc = "idle"
    /\ api = "none"
    /\ stream = <<>>
    /\ line_number = 0
    /\ last_element = NoElement
    /\ strict = TRUE
    /\ ret = [op |-> "__init__", status |-> "ok"]
    /\ pending = {}

\* StartLoop without the call of invalidate_cache()
StartLoopKeepingCaches(name, lines, strictFlag) ==
    /\ UNCHANGED <<element_list, element_dictionary>>
    /\ pending' = {"list", "dict"}
    /\ arena' = Append(arena, RootElement)
    /\ root_element' = Len(arena) + 1
    /\ line_number' = 1
    /\ last_element' = Len(arena) + 1
    /\ stream' = lines
    /\ api' = name
    /\ strict' = strictFlag
    /\ pc' = "parsing"
    /\ ret' = [op |-> name, status |-> "running"]

\* StartLoop going on with the root the parser already has
StartLoopReusingRoot(name, lines, strictFlag) ==
    /\ element_list' = InvalidatedCache
    /\ element_dictionary' = InvalidatedCache
    /\ pending' = {"list", "dict"}
    /\ arena' = arena
    /\ root_element' = root_element
    /\ line_number' = 1
    /\ last_element' = root_element
    /\ stream' = lines
    /\ api' = name
    /\ strict' = strictFlag
    /\ pc' = "parsing"
    /\ ret' = [op |-> name, status |-> "running"]

\* Lines 133-137 and 145-149: invalidate the caches, make a fresh root, and
\* enter the loop over lines
StartLoop(name, lines, strictFlag) ==
    /\ element_list' = InvalidatedCache
    /\ element_dictionary' = InvalidatedCache
    /\ pending' = {"list", "dict"}
    /\ arena' = Append(arena, RootElement)
    /\ root_element' = Len(arena) + 1
    /\ line_number' = 1
    /\ last_element' = Len(arena) + 1
    /\ stream' = lines
    /\ api' = name
    /\ strict' = strictFlag
    /\ pc' = "parsing"
    /\ ret' = [op |-> name, status |-> "running"]

\* parse_stream(gedcom_stream, strict) up to the loop
ParseStreamStart ==
    /\ pc = "idle"
    /\ Len(arena) < MaxNodes
    /\ \E lines \in SeqsUpTo(LinePool, MaxNodes - Len(arena) - 1), s \in BOOLEAN :
           StartLoop("parse_stream", lines, s)

\* parse(string, strict) up to the loop: string.strip().split("\n")
ParseStart ==
    /\ pc = "idle"
    /\ Len(arena) < MaxNodes
    /\ \E lines \in SeqsUpTo(LinePool, MaxNodes - Len(arena) - 1), s \in BOOLEAN :
           StartLoop("parse", Split(Strip(Concat(lines))), s)

\* The line handed to parse_line: decoded in parse_stream, as it is in parse
NextLine == IF api = "parse_stream" THEN Decode(Head(stream)) ELSE Head(stream)

\* The effect of one iteration whose parse_line call gave r
Iteration(line, r) ==
    /\ arena' = r.arena
    /\ ret' = [op |-> "parse_line", status |-> r.status, level |-> r.level,
               last_level |-> r.last_level, element |-> r.element,
               line_number |-> line_number, line |-> line, strict |-> strict,
               cites_line |-> r.cites_line, cites_text |-> r.cites_text,
               nodes_before |-> Len(arena), last_element |-> last_element]
    /\ IF r.status = "ok"
       THEN /\ last_element' = r.element
            /\ line_number' = line_number + 1
            /\ stream' = Tail(stream)
            /\ UNCHANGED <<pc, api, strict>>
       ELSE /\ last_element' = NoElement
            /\ line_number' = 0
            /\ stream' = <<>>
            /\ api' = "none"
            /\ strict' = TRUE
            /\ pc' = "idle"

\* One iteration of the loop (lines 139-141, 151-153): parse_line on the next
\* line; an exception leaves the loop and the call
ParseLineStep ==
    /\ pc = "parsing"
    /\ stream # <<>>
    /\ Iteration(NextLine, ParseLine(arena, line_number, NextLine, last_element, strict))
    /\ UNCHANGED <<root_element, element_list, element_dictionary, pending>>

\* The loop ends: parse / parse_stream returns
ParseReturn ==
    /\ pc = "parsing"
    /\ stream = <<>>
    /\ pc' = "idle"
    /\ last_element' = NoElement
    /\ line_number' = 0
    /\ api' = "none"
    /\ strict' = TRUE
    /\ ret' = [op |-> api, status |-> "ok", lines |-> line_number - 1]
    /\ UNCHANGED <<arena, root_element, element_list, element_dictionary, stream, pending>>

InvalidateCache ==
    /\ pc = "idle"
    /\ element_list' = InvalidatedCache
    /\ element_dictionary' = InvalidatedCache
    /\ pending' = {"list", "dict"}
    /\ ret' = [op |-> "invalidate_cache", status |-> "ok"]
    /\ UNCHANGED <<arena, root_element, pc, api, stream, line_number, last_element, strict>>

GetElementList ==
    /\ pc = "idle"
    /\ element_list' = GetElementListOf(arena, root_element, element_list)
    /\ ret' = [op |-> "get_element_list", status |-> "ok", value |-> element_list']
    /\ pending' = pending \ {"list"}
    /\ UNCHANGED <<arena, root_element, element_dictionary, pc, api, stream, line_number,
                   last_element, strict>>

GetElementDictionary ==
    /\ pc = "idle"
    /\ element_dictionary' = GetElementDictionaryOf(arena, root_element, element_dictionary)
    /\ ret' = [op |-> "get_element_dictionary", status |-> "ok", value |-> element_dictionary']
    /\ pending' = pending \ {"dict"}
    /\ UNCHANGED <<arena, root_element, element_list, pc, api, stream, line_number,
                   last_element, strict>>

GetElementByPointer ==
    /\ pc = "idle"
    /\ \E p \in PointerPool :
        /\ element_dictionary' = GetElementDictionaryOf(arena, root_element, element_dictionary)
        /\ ret' = [op |-> "get_element_by_pointer", status |-> "ok", pointer |-> p,
                   value |-> ElementByPointer(element_dictionary', p)]
    /\ pending' = pending \ {"dict"}
    /\ UNCHANGED <<arena, root_element, element_list, pc, api, stream, line_number,
                   last_element, strict>>

Next ==
    \/ ParseStreamStart
    \/ ParseStart
    \/ ParseLineStep
    \/ ParseReturn
    \/ InvalidateCache
    \/ GetElementList
    \/ GetElementDictionary
    \/ GetElementByPointer

Spec == Init /\ [][Next]_vars

----------------------------------------------------------------------------
(* The queries, run on a parsed document *)

\* A new parser on which parse_stream(document) has reached its loop (lines
\* 133-137): a fresh root, the caches empty, the lines of the document ahead
QueryInit ==
    /\ arena = <<RootElement, RootElement>>
    /\ root_element = 2
    /\ element_list = InvalidatedCache
    /\ element_dictionary = InvalidatedCache
    /\ pc = "parsing"
    /\ api = "parse_stream"
    /\ stream \in Documents
    /\ line_number = 1
    /\ last_element = 2
    /\ strict = TRUE
    /\ ret = [op |-> "parse_stream", status |-> "running"]
    /\ pending = {"list", "dict"}

\* The arguments queries are called with: the records of the document
Subjects == {RootChildElements(arena, root_element)[k] :
                 k \in 1..Len(RootChildElements(arena, root_element))}

\* The dictionary a query sees
Dictionary == GetElementDictionaryOf(arena, root_element, element_dictionary)

\* A query that called get_element_dictionary() leaves the cache built
Called(name, subject, result, reads) ==
    /\ pc = "idle"
    /\ ret' = [op |-> name, subject |-> subject, result |-> result]
    /\ element_dictionary' = IF reads THEN Dictionary ELSE element_dictionary
    /\ pending' = IF reads THEN pending \ {"dict"} ELSE pending
    /\ UNCHANGED <<arena, root_element, element_list, pc, api, stream, line_number,
                   last_element, strict>>

\* get_parents reaches get_element_by_pointer only after lines 324-330
ParentsReads(e) == IsIndividual(arena, e) /\ IsChildInAFamily(arena, e)

GetFamiliesCall ==
    \E e \in Subjects, t \in {GEDCOM_TAG_FAMILY_SPOUSE, GEDCOM_TAG_FAMILY_CHILD} :
        Called("get_families", <<e, t>>, GetFamilies(arena, Dictionary, e, t),
               IsIndividual(arena, e))

GetParentsCall ==
    \E e \in Subjects :
        Called("get_parents", e, GetParents(arena, Dictionary, e), ParentsReads(e))

GetAncestorsCall ==
    \E e \in Subjects :
        Called("get_ancestors", e, GetAncestors(arena, Dictionary, e, MaxDepth),
               ParentsReads(e))

FindPathToAncestorCall ==
    \E e \in Subjects, a \in Subjects :
        Called("find_path_to_ancestor", <<e, a>>,
               FindPathToAncestor(arena, Dictionary, e, a, <<>>, MaxDepth),
               /\ IsIndividual(arena, a)
               /\ ParentsReads(e)
               /\ ~PathEnds(arena, <<e>>, a))

GetMarriagesCall ==
    \E e \in Subjects :
        Called("get_marriages", e, GetMarriages(arena, Dictionary, e),
               IsIndividual(arena, e))

GetChildrenCall ==
    \E e \in Subjects :
        Called("get_children", e, GetChildren(arena, Dictionary, e),
               IsIndividual(arena, e))

GetDescendantsCall ==
    \E e \in Subjects :
        Called("get_descendants", e, GetDescendants(arena, Dictionary, e, MaxDepth),
               IsIndividual(arena, e))

QueryNext ==
    \/ ParseLineStep
    \/ ParseReturn
    \/ GetFamiliesCall
    \/ GetParentsCall
    \/ GetAncestorsCall
    \/ FindPathToAncestorCall
    \/ GetMarriagesCall
    \/ GetChildrenCall
    \/ GetDescendantsCall

QuerySpec == QueryInit /\ [][QueryNext]_vars


----------------------------------------------------------------------------
(* Properties of the tree builder (checked under Spec) *)

\* A parse_line call has just made parse / parse_stream fail
ParseFailed == pc = "idle" /\ ret.op = "parse_line" /\ ret.status # "ok"

\* C1: In strict and in lenient mode alike, when the level obtained for a
\* line (parsed, or synthesized by quirk recovery) is greater than
\* last_element.level + 1, parse_line raises GedcomFormatViolationError and no
\* element is created or attached for the line.
C1_LevelJumpRaises ==
    (ret.op = "parse_line" /\ ret.level > ret.last_level + 1)
        => /\ ret.status = "GedcomFormatViolationError"
           /\ ret.element = NoElement
           /\ Len(arena) = ret.nodes_before
           /\ pc = "idle"

\* A lenient parse has been stopped by a level jump
C1_Witness ==
    /\ ret.op = "parse_line"
    /\ ret.level > ret.last_level + 1
    /\ ~ret.strict
    /\ ret.line_number > 1
    /\ ret.status = "GedcomFormatViolationError"

\* C2: In every state reached while a tree is built, every parent-child edge
\* satisfies level(child) = level(parent) + 1, the elements without parent are
\* the roots, at level -1, and top-level records are at level 0.
C2_LevelsFollowEdges ==
    \A e \in 1..Len(arena) :
        /\ arena[e].parent = NoElement => arena[e].level = -1
        /\ arena[e].parent # NoElement =>
               /\ arena[e].level = arena[arena[e].parent].level + 1
               /\ \E k \in 1..Len(arena[arena[e].parent].children) :
                      arena[arena[e].parent].children[k] = e
        /\ \A k \in 1..Len(arena[e].children) :
               /\ arena[arena[e].children[k]].parent = e
               /\ arena[arena[e].children[k]].level = arena[e].level + 1

\* A lenient parse is under way and quirk recovery has produced an element
\* two levels below a top-level record
C2_Witness ==
    /\ pc = "parsing"
    /\ ~strict
    /\ \E e \in 1..Len(arena) :
           /\ arena[e].pointer = None
           /\ arena[e].level = 2
           /\ arena[arena[arena[e].parent].parent].level = 0

\* C3: when parse or parse_stream fails on a line, no partial tree is
\* exposed: after the failure the root, the element list and the element
\* dictionary show none of the elements built from the lines that preceded
\* the offending line.
C3_NoPartialTree ==
    ParseFailed =>
        /\ RootChildElements(arena, root_element) = <<>>
        /\ GetElementListOf(arena, root_element, element_list) = <<>>
        /\ GetElementDictionaryOf(arena, root_element, element_dictionary) = <<>>

\* What the parser holds after a failure on line k: the fresh root of this
\* parse with exactly the k - 1 elements built from the preceding lines (none
\* of an earlier document); the caches are empty or hold what is derived
\* from that partial tree.
PartialTreeAfterFailure ==
    ParseFailed =>
        /\ Len(ElementListOf(arena, root_element)) = ret.line_number - 1
        /\ \A k \in 1..Len(ElementListOf(arena, root_element)) :
               ElementListOf(arena, root_element)[k] = root_element + k
        /\ Len(arena) = root_element + ret.line_number - 1
        /\ element_list \in {<<>>, ElementListOf(arena, root_element)}
        /\ element_dictionary \in {<<>>, ElementDictionaryOf(arena, root_element)}

\* C8: The first read of a cache that follows a parse or an invalidate_cache
\* returns, and leaves cached, exactly the list / pointer mapping derived
\* from the tree as it is at that read; and a cache is never emptied without
\* the other being emptied in the same step.
C8_FirstReadIsFresh ==
    [][ /\ ("list" \in pending /\ "list" \notin pending') =>
              /\ ret'.op = "get_element_list"
              /\ ret'.value = ElementListOf(arena', root_element')
              /\ element_list' = ret'.value
        /\ ("dict" \in pending /\ "dict" \notin pending') =>
              /\ element_dictionary' = ElementDictionaryOf(arena', root_element')
              /\ ret'.op = "get_element_dictionary" => ret'.value = element_dictionary'
        /\ (\/ (element_list # <<>> /\ element_list' = <<>>)
            \/ (element_dictionary # <<>> /\ element_dictionary' = <<>>)) =>
              (element_list' = <<>> /\ element_dictionary' = <<>>)
      ]_vars

\* The list has been read after a second document replaced a first one that
\* had elements
C8_Witness ==
    /\ pc = "idle"
    /\ ret.op = "get_element_list"
    /\ ret.value # <<>>
    /\ "list" \notin pending
    /\ \E e \in 1..Len(arena) : e < root_element /\ arena[e].level = 0

\* The pointers the records of the current document declare
DeclaredPointers ==
    {arena[RootChildElements(arena, root_element)[k]].pointer :
         k \in {j \in 1..Len(RootChildElements(arena, root_element)) :
                    Truthy(arena[RootChildElements(arena, root_element)[j]].pointer)}}

\* C9: get_element_by_pointer(p) never raises: it returns a record of the
\* current document declaring p when one does, and None otherwise, in every
\* parser state including before any parse.
C9_ResolveNeverRaises ==
    ret.op = "get_element_by_pointer" =>
        /\ ret.status = "ok"
        /\ IF ret.pointer \in DeclaredPointers
           THEN /\ ret.value # NoElement
                /\ arena[ret.value].parent = root_element
                /\ arena[ret.value].pointer = ret.pointer
           ELSE ret.value = NoElement

\* A pointer nobody declares was looked up in a document that declares others
C9_Witness ==
    /\ ret.op = "get_element_by_pointer"
    /\ ret.status = "ok"
    /\ ret.value = NoElement
    /\ Truthy(ret.pointer)
    /\ DeclaredPointers # {}

----------------------------------------------------------------------------
(* Properties of the relationship queries (checked under QuerySpec) *)

\* The record of the current document an index lookup of p gives: the last
\* one declaring p, or None
Declaring(p) ==
    {j \in 1..Len(RootChildElements(arena, root_element)) :
         arena[RootChildElements(arena, root_element)[j]].pointer = p}
MaxOf(S) == CHOOSE x \in S : \A y \in S : y <= x
Resolved(p) ==
    IF ~Truthy(p) \/ Declaring(p) = {} THEN NoElement
    ELSE RootChildElements(arena, root_element)[MaxOf(Declaring(p))]

\* The value of the first child of e tagged t, and whether there is one
HasLink(e, t) == \E k \in 1..Len(arena[e].children) : arena[arena[e].children[k]].tag = t
FirstLink(e, t) ==
    arena[arena[e].children[
        CHOOSE k \in 1..Len(arena[e].children) :
            /\ arena[arena[e].children[k]].tag = t
            /\ \A j \in 1..(k - 1) : arena[arena[e].children[j]].tag # t]].value
LastLink(e, t) ==
    arena[arena[e].children[
        CHOOSE k \in 1..Len(arena[e].children) :
            /\ arena[arena[e].children[k]].tag = t
            /\ \A j \in (k + 1)..Len(arena[e].children) :
                   arena[arena[e].children[j]].tag # t]].value

\* The individuals get_parents gives for e (absent slots left out)
ParentIndividuals(e) ==
    {GetParents(arena, Dictionary, e).value[k] : k \in 1..2} \ {NoElement}

\* The individuals reached from e by following get_parents at most n times
RECURSIVE AncestorsWithin(_, _)
AncestorsWithin(e, n) ==
    IF n = 0 \/ ~IsIndividual(arena, e) THEN {}
    ELSE ParentIndividuals(e)
           \cup UNION {AncestorsWithin(q, n - 1) : q \in ParentIndividuals(e)}

\* No individual of the document is its own ancestor
NoFamilyLoop ==
    \A e \in Subjects : e \notin AncestorsWithin(e, Cardinality(Subjects))

\* C4 as stated: for an individual whose father F and mother M are both
\* present, get_ancestors returns a list rather than raising, and the list is
\* [F] + ancestors(F) + [M] + ancestors(M).
C4_AncestorsFatherSideFirst ==
    (/\ ret.op = "get_ancestors"
     /\ IsIndividual(arena, ret.subject)
     /\ NoFamilyLoop
     /\ IsIndividual(arena, GetParents(arena, Dictionary, ret.subject).value[1])
     /\ IsIndividual(arena, GetParents(arena, Dictionary, ret.subject).value[2]))
        => /\ ret.result.status = "ok"
           /\ Len(ret.result.value) >= 2
           /\ ret.result.value[1] = GetParents(arena, Dictionary, ret.subject).value[1]
           /\ \E k \in 2..Len(ret.result.value) :
                  /\ ret.result.value[k] = GetParents(arena, Dictionary, ret.subject).value[2]
                  /\ SubSeq(ret.result.value, 2, k - 1) =
                       GetAncestors(arena, Dictionary, ret.result.value[1], MaxDepth).value
                  /\ SubSeq(ret.result.value, k + 1, Len(ret.result.value)) =
                       GetAncestors(arena, Dictionary, ret.result.value[k], MaxDepth).value

\* C5 as stated: on a document without family loops find_path_to_ancestor
\* with Individual arguments never raises; an absent parent ends its branch.
C5_PathSearchNeverRaises ==
    (/\ ret.op = "find_path_to_ancestor"
     /\ IsIndividual(arena, ret.subject[1])
     /\ IsIndividual(arena, ret.subject[2])
     /\ NoFamilyLoop)
        => ret.result.status = "ok"

\* C6: For every individual I, find_path_to_ancestor(I, I) returns the
\* one-element path [I] without a call of get_parents.
C6_ZeroHopPath ==
    (/\ ret.op = "find_path_to_ancestor"
     /\ ret.subject[1] = ret.subject[2]
     /\ IsIndividual(arena, ret.subject[1]))
        => /\ ret.result.status = "ok"
           /\ ~ret.result.is_none
           /\ ret.result.value = <<ret.subject[1]>>
           /\ ret.result.consulted = 0

\* The zero-hop path was asked for an individual that has both parents
C6_Witness ==
    /\ ret.op = "find_path_to_ancestor"
    /\ ret.subject[1] = ret.subject[2]
    /\ IsIndividual(arena, ret.subject[1])
    /\ Cardinality(ParentIndividuals(ret.subject[1])) = 2
    /\ ret.result.value = <<ret.subject[1]>>

\* The family get_parents looks at: what the first child-of-family link of e
\* resolves to
ParentFamily(e) == Resolved(FirstLink(e, GEDCOM_TAG_FAMILY_CHILD))

\* C7: For every individual I, get_parents(I) returns a pair in the fixed
\* order (husband, wife) of I's child-of-family record, each slot resolved on
\* its own through the pointer index (absent when the family names nobody in
\* the role or the pointer is not declared); both slots are absent when I has
\* no child-of-family link or the link does not resolve to a Family.
C7_ParentsPair ==
    (ret.op = "get_parents" /\ IsIndividual(arena, ret.subject))
        => /\ ret.result.status = "ok"
           /\ Len(ret.result.value) = 2
           /\ IF \/ ~HasLink(ret.subject, GEDCOM_TAG_FAMILY_CHILD)
                 \/ ~IsFamily(arena, ParentFamily(ret.subject))
              THEN ret.result.value = <<NoElement, NoElement>>
              ELSE /\ ret.result.value[1] =
                        IF HasLink(ParentFamily(ret.subject), GEDCOM_TAG_HUSBAND)
                        THEN Resolved(FirstLink(ParentFamily(ret.subject), GEDCOM_TAG_HUSBAND))
                        ELSE NoElement
                   /\ ret.result.value[2] =
                        IF HasLink(ParentFamily(ret.subject), GEDCOM_TAG_WIFE)
                        THEN Resolved(FirstLink(ParentFamily(ret.subject), GEDCOM_TAG_WIFE))
                        ELSE NoElement

\* get_parents returned a husband and a wife, two different individuals
C7_Witness ==
    /\ ret.op = "get_parents"
    /\ ret.result.status = "ok"
    /\ IsIndividual(arena, ret.result.value[1])
    /\ IsIndividual(arena, ret.result.value[2])
    /\ arena[ret.result.value[1]].pointer = PI1
    /\ arena[ret.result.value[2]].pointer = PI2

\* The marriage nodes get_marriages(e) reports on, in the order of its pairs
RECURSIVE MarriageNodesOf(_)
MarriageNodesOf(families) ==
    IF families = <<>> THEN <<>>
    ELSE ChildrenTagged(arena, families[1], GEDCOM_TAG_MARRIAGE)
           \o MarriageNodesOf(Tail(families))
MarriageNodes(e) ==
    MarriageNodesOf(GetFamilies(arena, Dictionary, e, GEDCOM_TAG_FAMILY_SPOUSE).value)

\* C10 as stated: the date (place) of each pair is the value of the FIRST
\* child of the marriage node tagged date (place), the empty string when
\* there is none.
C10_FirstDateWins ==
    (ret.op = "get_marriages" /\ ret.result.status = "ok")
        => /\ Len(ret.result.value) = Len(MarriageNodes(ret.subject))
           /\ \A k \in 1..Len(ret.result.value) :
                  /\ ret.result.value[k][1] =
                       IF HasLink(MarriageNodes(ret.subject)[k], GEDCOM_TAG_DATE)
                       THEN FirstLink(MarriageNodes(ret.subject)[k], GEDCOM_TAG_DATE)
                       ELSE <<>>
                  /\ ret.result.value[k][2] =
                       IF HasLink(MarriageNodes(ret.subject)[k], GEDCOM_TAG_PLACE)
                       THEN FirstLink(MarriageNodes(ret.subject)[k], GEDCOM_TAG_PLACE)
                       ELSE <<>>

\* C10 amended: the date (place) of each pair is the value of the LAST child
\* of the marriage node tagged date (place); when the node has no such child
\* the field is the empty string, never absent.
C10_LastDateWins ==
    (ret.op = "get_marriages" /\ ret.result.status = "ok")
        => /\ Len(ret.result.value) = Len(MarriageNodes(ret.subject))
           /\ \A k \in 1..Len(ret.result.value) :
                  /\ ret.result.value[k][1] # None
                  /\ ret.result.value[k][2] # None
                  /\ ret.result.value[k][1] =
                       IF HasLink(MarriageNodes(ret.subject)[k], GEDCOM_TAG_DATE)
                       THEN LastLink(MarriageNodes(ret.subject)[k], GEDCOM_TAG_DATE)
                       ELSE <<>>
                  /\ ret.result.value[k][2] =
                       IF HasLink(MarriageNodes(ret.subject)[k], GEDCOM_TAG_PLACE)
                       THEN LastLink(MarriageNodes(ret.subject)[k], GEDCOM_TAG_PLACE)
                       ELSE <<>>

\* get_marriages reported a marriage with two dates, and one without any
C10_Witness ==
    /\ ret.op = "get_marriages"
    /\ ret.result.status = "ok"
    /\ \E k \in 1..Len(ret.result.value) :
           /\ Len(ChildrenTagged(arena, MarriageNodes(ret.subject)[k], GEDCOM_TAG_DATE)) = 2
           /\ ret.result.value[k] = << <<"1","9","0","1">>, <<"Y","o","r","k">> >>
    /\ \E k \in 1..Len(ret.result.value) : ret.result.value[k] = << <<>>, <<>> >>

\* The spouse-families of e: what its spouse-of-family links resolve to, in
\* link order, links to undeclared pointers left out
SpouseFamiliesOf(e) ==
    LET links == ChildrenTagged(arena, e, GEDCOM_TAG_FAMILY_SPOUSE)
        declared == {k \in 1..Len(links) : Resolved(arena[links[k]].value) # NoElement}
        Nth(S, n) == CHOOSE x \in S : Cardinality({y \in S : y < x}) = n - 1
    IN  [n \in 1..Cardinality(declared) |-> Resolved(arena[links[Nth(declared, n)]].value)]

\* The pair the code gives for marriage node m
LastPair(m) ==
    << IF HasLink(m, GEDCOM_TAG_DATE) THEN LastLink(m, GEDCOM_TAG_DATE) ELSE <<>>,
       IF HasLink(m, GEDCOM_TAG_PLACE) THEN LastLink(m, GEDCOM_TAG_PLACE) ELSE <<>> >>

\* C11 as stated: get_marriages(I) returns exactly one pair per spouse-family
\* of I that declares a marriage event, and none for the others: a
\* spouse-family contributes at most one pair however many marriage nodes it
\* has.
C11_OnePairPerFamily ==
    (ret.op = "get_marriages" /\ ret.result.status = "ok")
        => Len(ret.result.value) =
             Cardinality({k \in 1..Len(SpouseFamiliesOf(ret.subject)) :
                 HasLink(SpouseFamiliesOf(ret.subject)[k], GEDCOM_TAG_MARRIAGE)})

\* C11 amended: get_marriages(I) returns exactly one pair per marriage node
\* of each spouse-family of I, in spouse-family order and then in the order
\* of the nodes within the family, and no pair for a spouse-family without a
\* marriage node.
C11_OnePairPerMarriageNode ==
    (ret.op = "get_marriages" /\ ret.result.status = "ok")
        => ret.result.value =
             [k \in 1..Len(MarriageNodesOf(SpouseFamiliesOf(ret.subject))) |->
                  LastPair(MarriageNodesOf(SpouseFamiliesOf(ret.subject))[k])]

\* get_marriages reported two marriages of a single spouse-family
C11_Witness ==
    /\ ret.op = "get_marriages"
    /\ ret.result.status = "ok"
    /\ Len(SpouseFamiliesOf(ret.subject)) = 1
    /\ Len(ret.result.value) = 2
    /\ ret.result.value[1] # ret.result.value[2]

\* The individuals the children pointers of the families fs resolve to, family
\* by family and in each family in the order of its children pointers
RECURSIVE ChildrenListed(_)
ChildrenListed(fs) ==
    IF fs = <<>> THEN <<>>
    ELSE LET links == ChildrenTagged(arena, fs[1], GEDCOM_TAG_CHILD)
             kept == {k \in 1..Len(links) :
                         IsIndividual(arena, Resolved(arena[links[k]].value))}
             Nth(S, n) == CHOOSE x \in S : Cardinality({y \in S : y < x}) = n - 1
         IN  [n \in 1..Cardinality(kept) |-> Resolved(arena[links[Nth(kept, n)]].value)]
               \o ChildrenListed(Tail(fs))

\* Every spouse-of-family link of e that resolves, resolves to a Family
SpouseLinksNameFamilies(e) ==
    \A k \in 1..Len(SpouseFamiliesOf(e)) : IsFamily(arena, SpouseFamiliesOf(e)[k])

C12_WitnessDanglingLink ==
    /\ ret.op = "get_children"
    /\ ret.result.status = "ok"
    /\ ret.result.value # <<>>
    /\ Len(SpouseFamiliesOf(ret.subject)) <
           Len(ChildrenTagged(arena, ret.subject, GEDCOM_TAG_FAMILY_SPOUSE))

\* The children of e as the document lists them
ListedChildren(e) ==
    IF IsIndividual(arena, e) THEN ChildrenListed(SpouseFamiliesOf(e)) ELSE <<>>
ListedChildSet(e) == {ListedChildren(e)[k] : k \in 1..Len(ListedChildren(e))}

\* The individuals reached from e by following the children relation at most
\* n times
RECURSIVE DescendantsWithin(_, _)
DescendantsWithin(e, n) ==
    IF n = 0 THEN {}
    ELSE ListedChildSet(e) \cup UNION {DescendantsWithin(c, n - 1) : c \in ListedChildSet(e)}

\* No individual reachable from e through the children relation, e included,
\* is its own descendant
NoChildLoopFrom(e) ==
    \A x \in {e} \cup DescendantsWithin(e, Cardinality(Subjects)) :
        x \notin DescendantsWithin(x, Cardinality(Subjects))

\* Depth-first pre-order of the children relation below e, to depth n
RECURSIVE PreOrder(_, _)
RECURSIVE PreOrderOfAll(_, _)
PreOrder(e, n) == IF n = 0 THEN <<>> ELSE PreOrderOfAll(ListedChildren(e), n)
PreOrderOfAll(cs, n) ==
    IF cs = <<>> THEN <<>>
    ELSE <<cs[1]>> \o PreOrder(cs[1], n - 1) \o PreOrderOfAll(Tail(cs), n)

\* C13: On a document without family loops, get_descendants(I) is the
\* concatenation, over the children c of I in get_children order, of [c]
\* followed by the descendants of c: a depth-first pre-order in which a child
\* and all of its descendants come before the next sibling.
C13_DescendantsPreOrder ==
    (/\ ret.op = "get_descendants"
     /\ IsIndividual(arena, ret.subject)
     /\ NoChildLoopFrom(ret.subject))
        => /\ ret.result.status = "ok"
           /\ ret.result.value = PreOrder(ret.subject, Cardinality(Subjects))

\* get_descendants emitted a grandchild of the subject between two of its
\* children
C13_Witness ==
    /\ ret.op = "get_descendants"
    /\ ret.result.status = "ok"
    /\ Len(ret.result.value) >= 4
    /\ ret.result.value[1] \in ListedChildSet(ret.subject)
    /\ ret.result.value[2] \in ListedChildSet(ret.result.value[1])
    /\ ret.result.value[3] \in ListedChildSet(ret.subject)
    /\ ret.result.value[3] # ret.result.value[2]
    /\ ret.result.value[3] # ret.result.value[1]

\* The relationship queries, and the subjects a call r of one was given
RelationshipQueries ==
    {"get_families", "get_parents", "get_children", "get_ancestors",
     "get_descendants", "get_marriages", "find_path_to_ancestor"}
QuerySubjects(r) ==
    IF r.op = "get_families" THEN {r.subject[1]}
    ELSE IF r.op = "find_path_to_ancestor" THEN {r.subject[1], r.subject[2]}
    ELSE {r.subject}

\* C14: Every relationship query called with a subject that is not an
\* Individual fails with NotAnActualIndividualError, and the failed call
\* leaves the tree, the element list cache and the pointer index as they
\* were.
C14_WrongKindFailsCleanly ==
    [][ (/\ ret'.op \in RelationshipQueries
         /\ \E e \in QuerySubjects(ret') : ~IsIndividual(arena, e))
            => /\ ret'.result.status = "NotAnActualIndividualError"
               /\ arena' = arena
               /\ root_element' = root_element
               /\ element_list' = element_list
               /\ element_dictionary' = element_dictionary
      ]_vars

\* get_families was refused for a Family record while the pointer index was
\* still to be built
C14_Witness ==
    /\ ret.op = "get_families"
    /\ IsFamily(arena, ret.subject[1])
    /\ ret.result.status = "NotAnActualIndividualError"
    /\ element_dictionary = <<>>
    /\ ElementDictionaryOf(arena, root_element) # <<>>

----------------------------------------------------------------------------
(* Properties of the line grammar (checked under Spec) *)

\* A line that cannot match LEVEL [POINTER] TAG [VALUE] TERMINATOR: it does
\* not start with a digit, or it has no terminator
Malformed(line) ==
    \/ line = <<>>
    \/ line[1] \notin Digit
    \/ \A k \in 1..Len(line) : line[k] \notin EolChar

\* C15: In strict mode a line that does not match the full grammar makes the
\* parse fail with a GedcomFormatViolationError that reports the line's
\* 1-based number and its raw content, and no element is created for it.
C15_StrictRejectsMalformed ==
    (ret.op = "parse_line" /\ ret.strict /\ Malformed(ret.line))
        => /\ ret.status = "GedcomFormatViolationError"
           /\ ret.cites_line = Len(arena) - root_element + 1
           /\ ret.cites_text = ret.line
           /\ ret.element = NoElement
           /\ Len(arena) = ret.nodes_before
           /\ pc = "idle"

\* A strict parse_stream was stopped on its second line, which had no
\* terminator
C15_Witness ==
    /\ ret.op = "parse_line"
    /\ ret.strict
    /\ ret.line = Line_NOEOL
    /\ ret.status = "GedcomFormatViolationError"
    /\ ret.cites_line = 2
    /\ Len(ElementListOf(arena, root_element)) = 1

\* A line of free text and a terminator: no level at its start, a terminator
\* after the text
FreeText(line) ==
    /\ line # <<>>
    /\ line[1] \notin Digit
    /\ \E k \in 1..Len(line) : line[k] \in EolChar

\* The text of such a line: what precedes its terminator
TextOf(line) ==
    SubSeq(line, 1, (CHOOSE k \in 1..Len(line) :
                        /\ line[k] \in EolChar
                        /\ \A j \in 1..(k - 1) : line[j] \notin EolChar) - 1)

\* v is text without its leading and trailing whitespace
IsStripped(v, text) ==
    \E i \in 1..(Len(text) + 1), j \in 0..Len(text) :
        /\ v = SubSeq(text, i, j)
        /\ \A k \in 1..Len(text) : (k < i \/ k > j) => text[k] \in Whitespace
        /\ v # <<>> => (v[1] \notin Whitespace /\ v[Len(v)] \notin Whitespace)

\* The level, tag and parent the free-text quirk gives element n after E
ContinuesLast(n, last) ==
    IF arena[last].tag \in {GEDCOM_TAG_CONTINUED, GEDCOM_TAG_CONCATENATION}
    THEN /\ arena[n].level = arena[last].level
         /\ arena[n].tag = arena[last].tag
         /\ arena[n].parent = arena[last].parent
    ELSE /\ arena[n].level = arena[last].level + 1
         /\ arena[n].tag = GEDCOM_TAG_CONCATENATION
         /\ arena[n].parent = last

\* C16 as stated: in lenient mode a line of free text and a terminator,
\* processed after element E, yields an element whose value is the line's
\* text, with E's level and tag when E's tag is the continuation or the
\* concatenation tag, and otherwise level E.level + 1 and the concatenation
\* tag, as a child of E.
C16_FreeTextKeepsText ==
    (ret.op = "parse_line" /\ ~ret.strict /\ FreeText(ret.line))
        => /\ ret.status = "ok"
           /\ arena[ret.element].value = TextOf(ret.line)
           /\ ContinuesLast(ret.element, ret.last_element)

\* C16 amended: the same, the value being the line's text with its leading
\* and trailing whitespace removed.
C16_FreeTextStripped ==
    (ret.op = "parse_line" /\ ~ret.strict /\ FreeText(ret.line))
        => /\ ret.status = "ok"
           /\ IsStripped(arena[ret.element].value, TextOf(ret.line))
           /\ ContinuesLast(ret.element, ret.last_element)

\* Padded free text followed an element made from free text: it became a
\* sibling of that element
C16_Witness ==
    /\ ret.op = "parse_line"
    /\ ~ret.strict
    /\ ret.line = Line_PADDED
    /\ ret.status = "ok"
    /\ arena[ret.last_element].tag = GEDCOM_TAG_CONCATENATION
    /\ arena[ret.element].level = 1
    /\ arena[ret.element].value = <<"t">>

\* parse or parse_stream has just returned normally
ParseSucceeded == pc = "idle" /\ ret.op \in {"parse", "parse_stream"} /\ ret.status = "ok"

\* C17: After a successful parse of n lines get_element_list() has exactly n
\* elements and its k-th element is the element created from the k-th line:
\* the pre-order flattening of the tree equals document order.
C17_ListInDocumentOrder ==
    ParseSucceeded =>
        /\ Len(arena) = root_element + ret.lines
        /\ GetElementListOf(arena, root_element, element_list) =
               [k \in 1..ret.lines |-> root_element + k]

\* A three-line parse succeeded whose third line opened a new top-level
\* record after a nested line
C17_Witness ==
    /\ ParseSucceeded
    /\ ret.lines = 3
    /\ arena[root_element + 2].level = 1
    /\ arena[root_element + 3].level = 0

\* C18: Each call of parse or parse_stream creates a fresh root and replaces
\* the previous one without mutating it: the elements that existed before
\* the call keep their fields and children, and the parser's tree, element
\* list and pointer index hold only elements created since the call.
C18_FreshRootEachParse ==
    [][ /\ (pc = "idle" /\ pc' = "parsing") =>
              /\ root_element' = Len(arena) + 1
              /\ arena'[root_element'].children = <<>>
              /\ arena'[root_element'].parent = NoElement
              /\ SubSeq(arena', 1, Len(arena)) = arena
        /\ \A e \in 1..Len(arena) : e < root_element => arena'[e] = arena[e]
        /\ \A k \in 1..Len(GetElementListOf(arena', root_element', element_list')) :
               GetElementListOf(arena', root_element', element_list')[k] > root_element'
        /\ \A k \in 1..Len(GetElementDictionaryOf(arena', root_element', element_dictionary')) :
               GetElementDictionaryOf(arena', root_element', element_dictionary')[k][2]
                   > root_element'
      ]_vars

\* A second parse succeeded on a parser whose first document had a record,
\* and the root of the first document still has that record
C18_Witness ==
    /\ ParseSucceeded
    /\ ret.lines >= 1
    /\ root_element > 3
    /\ arena[2].children = <<3>>
    /\ arena[3].parent = 2
    /\ ElementListOf(arena, root_element) # <<>>

\* C19: get_descendants(I) returns exactly when no family loop is reachable
\* from I through the children relation; when some individual reachable from
\* I is its own descendant the recursion has no end (there is no cycle guard):
\* it uses up the frames it is allowed, however many they are.
C19_ReturnsIffNoChildLoop ==
    (ret.op = "get_descendants" /\ IsIndividual(arena, ret.subject))
        => IF NoChildLoopFrom(ret.subject)
           THEN ret.result.status = "ok"
           ELSE ret.result.status = "RecursionError"

\* get_descendants ran out of frames for an individual that is not its own
\* descendant but has one that is
C19_Witness ==
    /\ ret.op = "get_descendants"
    /\ IsIndividual(arena, ret.subject)
    /\ ret.result.status = "RecursionError"
    /\ ret.subject \notin DescendantsWithin(ret.subject, Cardinality(Subjects))
    /\ ListedChildren(ret.subject) # <<>>

\* C20: In lenient mode the only failure parsing a line can produce is the
\* GedcomFormatViolationError of a level jump: a line that fails the primary
\* grammar is accepted by a quirk-recovery grammar or rejected with that
\* error, and no line makes the parser fail with another kind of error.
C20_LenientOnlyLevelJump ==
    (ret.op = "parse_line" /\ ~ret.strict)
        => \/ ret.status = "ok"
           \/ /\ ret.status = "GedcomFormatViolationError"
              /\ ret.level > ret.last_level + 1

\* What a lenient parse does instead with a line that has neither a level
\* nor a terminator: no recovery grammar matches it, and the call fails with
\* the AttributeError of None.groups()
LenientFailures ==
    (ret.op = "parse_line" /\ ~ret.strict /\ ret.status # "ok")
        => \/ /\ ret.status = "GedcomFormatViolationError"
              /\ ret.level > ret.last_level + 1
           \/ /\ ret.status = "AttributeError"
              /\ \A k \in 1..Len(ret.line) : ret.line[k] \notin EolChar

====
